---------------------------- MODULE Spec2Model ----------------------------
(***************************************************************************)
(* State machine of the document-search view (React component App and its  *)
(* FileTreeNode children): folder expansion, file selection with its       *)
(* asynchronous document resolution, search submission and its responses,  *)
(* result activation, and the main-panel view derived from them.           *)
(*                                                                         *)
(* Strings are sequences of tokens.  A path token is either "/" or a file  *)
(* or folder name (a maximal run of non-slash characters); a query token   *)
(* is either the blank " " or a word.  The empty string is <<>>.           *)
(***************************************************************************)
EXTENDS Naturals, Sequences, FiniteSets

(***************************************************************************)
(* Bounds of the model.                                                    *)
(***************************************************************************)
\* file clicks (handleFileSelect calls) in one behaviour of SpecSelection
MaxSelects == 3
\* search requests sent in one behaviour of SpecSearch
MaxSearches == 3
\* file clicks and search requests in one behaviour of Spec
CoreSelects == 1
CoreSearches == 2
\* triggerRescan calls in one behaviour of SpecReload
MaxRescans == 2
\* file clicks, search requests and triggerRescan calls, taken together, in
\* one behaviour of SpecView
ViewRequests == 2

(***************************************************************************)
(* Values.                                                                 *)
(***************************************************************************)
\* JavaScript null (useState(null), a failed lookup)
Null == [null |-> TRUE]

\* '/var/www/html/MPK/doc/' : the corpus-root prefix handleFileSelect strips
CorpusPrefix ==
  <<"/", "var", "/", "www", "/", "html", "/", "MPK", "/", "doc", "/">>

\* path of the root folder node: the prefix without its trailing slash
RootPath == SubSeq(CorpusPrefix, 1, Len(CorpusPrefix) - 1)

FolderAPath == CorpusPrefix \o <<"a">>
FileXPath == CorpusPrefix \o <<"a", "/", "x.txt">>
FileYPath == CorpusPrefix \o <<"y.txt">>

FileNode(p) ==
  [path |-> p, name |-> p[Len(p)], type |-> "file", children |-> <<>>]

FolderNode(p, kids) ==
  [path |-> p, name |-> p[Len(p)], type |-> "folder", children |-> kids]

\* GET /api/file-tree: the full tree, before and after folder a is removed
Tree1 ==
  FolderNode(RootPath,
             <<FolderNode(FolderAPath, <<FileNode(FileXPath)>>),
               FileNode(FileYPath)>>)

Tree2 == FolderNode(RootPath, <<FileNode(FileYPath)>>)

Trees == {Tree1, Tree2}

\* the documents the backend has indexed
Doc42 ==
  [id |-> 42, name |-> "x.txt", path |-> FileXPath,
   relative_path |-> <<"a", "/", "x.txt">>]

Doc7 ==
  [id |-> 7, name |-> "y.txt", path |-> FileYPath,
   relative_path |-> <<"y.txt">>]

Corpus == {Doc42, Doc7}

\* GET /api/stats
StatsData == [total_documents |-> Cardinality(Corpus)]

\* what the user can type into the search box
Queries == {<<>>, <<" ">>, <<"budget">>, <<"report">>}

(***************************************************************************)
(* String helpers.                                                         *)
(***************************************************************************)
\* index of the first "/" of p at or after i, or 0
RECURSIVE IndexOfSlash(_, _)
IndexOfSlash(p, i) ==
  IF i > Len(p) THEN 0
  ELSE IF p[i] = "/" THEN i
  ELSE IndexOfSlash(p, i + 1)

\* String.prototype.split('/'): the pieces between the slashes, "" included
RECURSIVE Split(_)
Split(p) ==
  LET i == IndexOfSlash(p, 1)
  IN  IF i = 0 THEN <<p>>
      ELSE <<SubSeq(p, 1, i - 1)>> \o Split(SubSeq(p, i + 1, Len(p)))

\* whether pat occurs in s at position i
OccursAt(s, pat, i) ==
  /\ i + Len(pat) - 1 <= Len(s)
  /\ SubSeq(s, i, i + Len(pat) - 1) = pat

\* String.prototype.replace(pat, ''): the first occurrence removed
Replace(s, pat) ==
  LET hits == {i \in 1..Len(s) : OccursAt(s, pat, i)}
  IN  IF hits = {} THEN s
      ELSE LET i == CHOOSE h \in hits : \A k \in hits : h <= k
           IN  SubSeq(s, 1, i - 1) \o SubSeq(s, i + Len(pat), Len(s))

\* encodeURIComponent: a slash is escaped, names pass unchanged
RECURSIVE EncodeURIComponent(_)
EncodeURIComponent(s) ==
  IF s = <<>> THEN <<>>
  ELSE <<IF Head(s) = "/" THEN "%2F" ELSE Head(s)>>
         \o EncodeURIComponent(Tail(s))

\* the backend's decoding of the {relative_path} URL parameter
RECURSIVE DecodePathParam(_)
DecodePathParam(s) ==
  IF s = <<>> THEN <<>>
  ELSE <<IF Head(s) = "%2F" THEN "/" ELSE Head(s)>>
         \o DecodePathParam(Tail(s))

\* String.prototype.trim: blanks removed at both ends
RECURSIVE TrimStart(_)
TrimStart(q) ==
  IF q # <<>> /\ q[1] = " " THEN TrimStart(Tail(q)) ELSE q

RECURSIVE TrimEnd(_)
TrimEnd(q) ==
  IF q # <<>> /\ q[Len(q)] = " " THEN TrimEnd(SubSeq(q, 1, Len(q) - 1)) ELSE q

Trim(q) == TrimEnd(TrimStart(q))

(***************************************************************************)
(* The backend, at its boundary.                                           *)
(***************************************************************************)
\* GET /api/documents/path/{key}: the document stored under the key, or Null
BackendDocumentByPath(key) ==
  LET rel == DecodePathParam(key)
      found == {d \in Corpus : d.relative_path = rel}
  IN  IF found = {} THEN Null ELSE CHOOSE d \in found : TRUE

\* POST /api/search: the ranked results for a query
BackendSearch(q) ==
  IF Trim(q) = <<"budget">>
    THEN <<[document |-> Doc42, relevance_score |-> 91],
           [document |-> Doc7, relevance_score |-> 54]>>
    ELSE <<>>

(***************************************************************************)
(* State of App (useState hooks), the requests in flight, and the history  *)
(* the properties refer to.                                                *)
(***************************************************************************)
VARIABLES
  fileTree,          \* the loaded tree, or Null
  stats,             \* the loaded stats, or Null
  isLoading,         \* the initial loading screen is shown
  treeReqs,          \* GET /api/file-tree requests in flight
  statsReqs,         \* GET /api/stats requests in flight
  scanReqs,          \* awaited POST /api/scan requests in flight
  timers,            \* reload timers set by triggerRescan and not yet fired
  rescanSeq,         \* triggerRescan calls so far
  reloadCycles,      \* reload timers fired so far
  treeLoadFailed,    \* the tree request answered last failed
  searchQuery,       \* text of the search box
  searchResults,     \* the result list
  isSearching,       \* the in-flight flag
  searchReqs,        \* POST /api/search requests in flight: [id, query]
  searchSeq,         \* search requests sent so far; the last one's number
  lastCompleted,     \* the handleSearch call that completed last: [id, results]
  selectedFilePath,  \* the highlighted path, '' when none
  previewDocument,   \* the previewed Document, or Null
  expandedPaths,     \* the set of expanded paths
  docReqs,           \* document resolutions in flight: [seq, path, key]
  selectSeq,         \* handleFileSelect calls so far; the last call's number
  previewClosed,     \* the preview was closed and no file or result clicked since
  toggleParity       \* per folder path: an odd number of toggles so far

loadVars ==
  <<fileTree, stats, isLoading, treeReqs, statsReqs, scanReqs, timers,
    rescanSeq, reloadCycles, treeLoadFailed>>
searchVars ==
  <<searchQuery, searchResults, isSearching, searchReqs, searchSeq, lastCompleted>>
selectionVars ==
  <<selectedFilePath, previewDocument, docReqs, selectSeq, previewClosed>>
expansionVars == <<expandedPaths, toggleParity>>
vars == <<loadVars, searchVars, selectionVars, expansionVars>>

Range(s) == {s[i] : i \in 1..Len(s)}

\* paths of the folder nodes of a tree
RECURSIVE FolderPathsOf(_)
FolderPathsOf(node) ==
  IF node.type = "folder"
    THEN {node.path}
         \cup UNION {FolderPathsOf(node.children[i]) :
                       i \in 1..Len(node.children)}
    ELSE {}

FolderPaths == UNION {FolderPathsOf(t) : t \in Trees}

\* useState initial values; the mount effect has issued its two loads
Init ==
  /\ fileTree = Null
  /\ stats = Null
  /\ isLoading = TRUE
  /\ treeReqs = 1
  /\ statsReqs = 1
  /\ scanReqs = 0
  /\ timers = 0
  /\ rescanSeq = 0
  /\ reloadCycles = 0
  /\ treeLoadFailed = FALSE
  /\ searchQuery = <<>>
  /\ searchResults = <<>>
  /\ isSearching = FALSE
  /\ searchReqs = {}
  /\ searchSeq = 0
  /\ lastCompleted = Null
  /\ selectedFilePath = <<>>
  /\ previewDocument = Null
  /\ expandedPaths = {}
  /\ docReqs = {}
  /\ selectSeq = 0
  /\ previewClosed = FALSE
  /\ toggleParity = [p \in FolderPaths |-> FALSE]

(***************************************************************************)
(* Rendering.                                                              *)
(***************************************************************************)
\* FileTreeNode: isExpanded
IsExpanded(path) == path \in expandedPaths

\* FileTreeNode: the nodes on screen below and including node
RECURSIVE RenderedNodes(_)
RenderedNodes(node) ==
  {node}
  \cup IF node.type = "folder" /\ IsExpanded(node.path)
         THEN UNION {RenderedNodes(node.children[i]) :
                       i \in 1..Len(node.children)}
         ELSE {}

\* renderMainContent with the result list tested before the in-flight flag
RenderMainContent_ResultsFirst(preview, searching, results, query) ==
  IF preview # Null THEN "Preview"
  ELSE IF Len(results) > 0 THEN "Results"
  ELSE IF searching THEN "Loading"
  ELSE IF query # <<>> THEN "NoResults"
  ELSE "Welcome"

\* renderMainContent: what the main panel shows
RenderMainContent(preview, searching, results, query) ==
  IF preview # Null THEN "Preview"
  ELSE IF searching THEN "Loading"
  ELSE IF Len(results) > 0 THEN "Results"
  ELSE IF query # <<>> THEN "NoResults"
  ELSE "Welcome"

ViewState ==
  RenderMainContent(previewDocument, isSearching, searchResults, searchQuery)

(***************************************************************************)
(* Loads and rescans.                                                      *)
(***************************************************************************)
\* loadFileTree, from the response on, dropping the tree when the load fails
LoadFileTreeResponse_ClearsOnFailure(ok, tree) ==
  /\ treeReqs > 0
  /\ treeReqs' = treeReqs - 1
  /\ fileTree' = IF ok THEN tree ELSE Null
  /\ isLoading' = FALSE
  /\ treeLoadFailed' = ~ok
  /\ UNCHANGED <<stats, statsReqs, scanReqs, timers, rescanSeq, reloadCycles>>
  /\ UNCHANGED <<searchVars, selectionVars, expansionVars>>

\* loadFileTree, from the response on, dropping the expanded paths that are
\* no folder of the new tree
LoadFileTreeResponse_PrunesExpansion(ok, tree) ==
  /\ treeReqs > 0
  /\ treeReqs' = treeReqs - 1
  /\ fileTree' = IF ok THEN tree ELSE fileTree
  /\ isLoading' = FALSE
  /\ treeLoadFailed' = ~ok
  /\ expandedPaths' =
       IF ok THEN expandedPaths \cap FolderPathsOf(tree) ELSE expandedPaths
  /\ UNCHANGED <<stats, statsReqs, scanReqs, timers, rescanSeq, reloadCycles>>
  /\ UNCHANGED <<searchVars, selectionVars, toggleParity>>

\* loadFileTree, from the response on
LoadFileTreeResponse(ok, tree) ==
  /\ treeReqs > 0
  /\ treeReqs' = treeReqs - 1
  /\ fileTree' = IF ok THEN tree ELSE fileTree
  /\ isLoading' = FALSE
  /\ treeLoadFailed' = ~ok
  /\ UNCHANGED <<stats, statsReqs, scanReqs, timers, rescanSeq, reloadCycles>>
  /\ UNCHANGED <<searchVars, selectionVars, expansionVars>>

\* loadStats, from the response on
LoadStatsResponse(ok) ==
  /\ statsReqs > 0
  /\ statsReqs' = statsReqs - 1
  /\ stats' = IF ok THEN StatsData ELSE stats
  /\ UNCHANGED <<fileTree, isLoading, treeReqs, scanReqs, timers,
                  rescanSeq, reloadCycles, treeLoadFailed>>
  /\ UNCHANGED <<searchVars, selectionVars, expansionVars>>

\* triggerRescan, up to the await: the scan request is sent
TriggerRescan ==
  /\ rescanSeq' = rescanSeq + 1
  /\ scanReqs' = scanReqs + 1
  /\ UNCHANGED <<fileTree, stats, isLoading, treeReqs, statsReqs, timers,
                  reloadCycles, treeLoadFailed>>
  /\ UNCHANGED <<searchVars, selectionVars, expansionVars>>

\* a click on the rescan button, which is rendered once stats are loaded;
\* at most limit clicks
RescanClick(limit) ==
  /\ ~isLoading
  /\ stats # Null
  /\ rescanSeq < limit
  /\ TriggerRescan

\* triggerRescan, from the await on: the reload timer is set when the scan
\* request succeeded, nothing is done when it failed
ScanResponse(ok) ==
  /\ scanReqs > 0
  /\ scanReqs' = scanReqs - 1
  /\ timers' = IF ok THEN timers + 1 ELSE timers
  /\ UNCHANGED <<fileTree, stats, isLoading, treeReqs, statsReqs,
                  rescanSeq, reloadCycles, treeLoadFailed>>
  /\ UNCHANGED <<searchVars, selectionVars, expansionVars>>

\* the callback of triggerRescan's timer, with a loadFileTree that raises
\* isLoading before its request
ReloadTimerFires_ShowsLoading ==
  /\ timers > 0
  /\ timers' = timers - 1
  /\ treeReqs' = treeReqs + 1
  /\ statsReqs' = statsReqs + 1
  /\ reloadCycles' = reloadCycles + 1
  /\ isLoading' = TRUE
  /\ UNCHANGED <<fileTree, stats, scanReqs, rescanSeq, treeLoadFailed>>
  /\ UNCHANGED <<searchVars, selectionVars, expansionVars>>

\* the callback of triggerRescan's timer: loadFileTree and loadStats, each
\* up to its await
ReloadTimerFires ==
  /\ timers > 0
  /\ timers' = timers - 1
  /\ treeReqs' = treeReqs + 1
  /\ statsReqs' = statsReqs + 1
  /\ reloadCycles' = reloadCycles + 1
  /\ UNCHANGED <<fileTree, stats, isLoading, scanReqs, rescanSeq,
                  treeLoadFailed>>
  /\ UNCHANGED <<searchVars, selectionVars, expansionVars>>

(***************************************************************************)
(* Folder expansion and file selection.                                    *)
(***************************************************************************)
\* handleToggleExpanded without its delete branch
HandleToggleExpanded_AddOnly(path) ==
  /\ expandedPaths' = expandedPaths \cup {path}
  /\ toggleParity' = [toggleParity EXCEPT ![path] = ~@]
  /\ UNCHANGED <<loadVars, searchVars, selectionVars>>

\* handleToggleExpanded
HandleToggleExpanded(path) ==
  /\ expandedPaths' = IF path \in expandedPaths
                        THEN expandedPaths \ {path}
                        ELSE expandedPaths \cup {path}
  /\ toggleParity' = [toggleParity EXCEPT ![path] = ~@]
  /\ UNCHANGED <<loadVars, searchVars, selectionVars>>

\* handleFileSelect without the highlight before the await
HandleFileSelect_NoHighlight(fileNode) ==
  /\ selectSeq' = selectSeq + 1
  /\ docReqs' =
       docReqs \cup
       {[seq |-> selectSeq + 1,
         path |-> fileNode.path,
         key |-> EncodeURIComponent(Replace(fileNode.path, CorpusPrefix))]}
  /\ previewClosed' = FALSE
  /\ UNCHANGED <<selectedFilePath, previewDocument>>
  /\ UNCHANGED <<loadVars, searchVars, expansionVars>>

\* handleFileSelect, up to the await: the highlight and the request
HandleFileSelect(fileNode) ==
  /\ selectSeq' = selectSeq + 1
  /\ selectedFilePath' = fileNode.path
  /\ docReqs' =
       docReqs \cup
       {[seq |-> selectSeq + 1,
         path |-> fileNode.path,
         key |-> EncodeURIComponent(Replace(fileNode.path, CorpusPrefix))]}
  /\ previewClosed' = FALSE
  /\ UNCHANGED previewDocument
  /\ UNCHANGED <<loadVars, searchVars, expansionVars>>

\* loadDocumentByPath: the Document of the response, null on any failure
LoadDocumentByPath(key, ok) ==
  IF ok THEN BackendDocumentByPath(key) ELSE Null

\* handleFileSelect, from the await on
DocumentResponse(req, ok) ==
  /\ req \in docReqs
  /\ docReqs' = docReqs \ {req}
  /\ LET document == LoadDocumentByPath(req.key, ok)
     IN  previewDocument' =
           IF document # Null THEN document ELSE previewDocument
  /\ UNCHANGED <<selectedFilePath, selectSeq, previewClosed>>
  /\ UNCHANGED <<loadVars, searchVars, expansionVars>>

\* the tree nodes on screen: none on the loading screen or without a tree
NodesOnScreen ==
  IF isLoading \/ fileTree = Null THEN {} ELSE RenderedNodes(fileTree)

\* FileTreeNode.handleClick without the folder branch
HandleClick_AlwaysSelect(node) ==
  HandleFileSelect(node)

\* FileTreeNode.handleClick
HandleClick(node) ==
  IF node.type = "folder"
    THEN HandleToggleExpanded(node.path)
    ELSE HandleFileSelect(node)

\* a click on a tree node that is on screen; at most limit file clicks
ClickNode(node, limit) ==
  /\ node \in NodesOnScreen
  /\ node.type = "file" => selectSeq < limit
  /\ HandleClick(node)

\* DocumentPreviewMain onClose
ClosePreview ==
  /\ ~isLoading
  /\ previewDocument # Null
  /\ previewDocument' = Null
  /\ previewClosed' = TRUE
  /\ UNCHANGED <<selectedFilePath, docReqs, selectSeq>>
  /\ UNCHANGED <<loadVars, searchVars, expansionVars>>

(***************************************************************************)
(* Result activation.                                                      *)
(***************************************************************************)
\* the loop of handleResultClick from index i on: the paths it adds
RECURSIVE AddedPaths(_, _, _)
AddedPaths(pathParts, i, currentPath) ==
  IF i > Len(pathParts) - 1 THEN {}
  ELSE LET next == currentPath
                   \o (IF currentPath # <<>> THEN <<"/">> ELSE <<>>)
                   \o pathParts[i]
       IN  {next} \cup AddedPaths(pathParts, i + 1, next)

\* handleResultClick as in the first revision: the main preview is not set
HandleResultClick_NoPreview(result) ==
  /\ selectedFilePath' = result.document.path
  /\ expandedPaths' =
       expandedPaths \cup AddedPaths(Split(result.document.path), 1, <<>>)
  /\ previewClosed' = FALSE
  /\ UNCHANGED <<previewDocument, docReqs, selectSeq, toggleParity>>
  /\ UNCHANGED <<loadVars, searchVars>>

\* handleResultClick
HandleResultClick(result) ==
  /\ selectedFilePath' = result.document.path
  /\ expandedPaths' =
       expandedPaths \cup AddedPaths(Split(result.document.path), 1, <<>>)
  /\ previewDocument' = result.document
  /\ previewClosed' = FALSE
  /\ UNCHANGED <<docReqs, selectSeq, toggleParity>>
  /\ UNCHANGED <<loadVars, searchVars>>

\* SearchResult.handleResultClick, on a result that is on screen
ResultClick(result) ==
  /\ ~isLoading
  /\ ViewState = "Results"
  /\ result \in Range(searchResults)
  /\ HandleResultClick(result)

(***************************************************************************)
(* Search.                                                                 *)
(***************************************************************************)
\* the search box's onChange
SetSearchQuery(q) ==
  /\ ~isLoading
  /\ q # searchQuery
  /\ searchQuery' = q
  /\ UNCHANGED <<searchResults, isSearching, searchReqs, searchSeq, lastCompleted>>
  /\ UNCHANGED <<loadVars, selectionVars, expansionVars>>

\* handleSearch, up to the await, without the test for a blank query
HandleSearch_NoBlankTest ==
  /\ searchSeq' = searchSeq + 1
  /\ isSearching' = TRUE
  /\ searchReqs' =
       searchReqs \cup {[id |-> searchSeq + 1, query |-> searchQuery]}
  /\ UNCHANGED <<searchResults, lastCompleted>>
  /\ UNCHANGED searchQuery
  /\ UNCHANGED <<loadVars, selectionVars, expansionVars>>

\* handleSearch, up to the await, without setIsSearching(true)
HandleSearch_NoFlag ==
  /\ IF Trim(searchQuery) = <<>>
       THEN /\ searchResults' = <<>>
            /\ lastCompleted' = [id |-> 0, results |-> <<>>]
            /\ UNCHANGED <<isSearching, searchReqs, searchSeq>>
       ELSE /\ searchSeq' = searchSeq + 1
            /\ searchReqs' =
                 searchReqs \cup {[id |-> searchSeq + 1, query |-> searchQuery]}
            /\ UNCHANGED <<isSearching, searchResults, lastCompleted>>
  /\ UNCHANGED searchQuery
  /\ UNCHANGED <<loadVars, selectionVars, expansionVars>>

\* handleSearch, up to the await (the whole call for a blank query)
HandleSearch ==
  /\ IF Trim(searchQuery) = <<>>
       THEN /\ searchResults' = <<>>
            /\ lastCompleted' = [id |-> 0, results |-> <<>>]
            /\ UNCHANGED <<isSearching, searchReqs, searchSeq>>
       ELSE /\ searchSeq' = searchSeq + 1
            /\ isSearching' = TRUE
            /\ searchReqs' =
                 searchReqs \cup {[id |-> searchSeq + 1, query |-> searchQuery]}
            /\ UNCHANGED <<searchResults, lastCompleted>>
  /\ UNCHANGED searchQuery
  /\ UNCHANGED <<loadVars, selectionVars, expansionVars>>

\* the search form's onSubmit with a submit button that is never disabled
SubmitSearch_ButtonEnabled(limit) ==
  /\ ~isLoading
  /\ Trim(searchQuery) # <<>> => searchSeq < limit
  /\ HandleSearch

\* the search form's onSubmit; at most limit requests are sent.  The form's
\* only submit button is disabled while isSearching: neither a click on it
\* nor Enter in the search box fires a submit event then, so handleSearch,
\* which does not test isSearching itself, is not called.
SubmitSearch(limit) ==
  /\ ~isLoading
  /\ ~isSearching
  /\ Trim(searchQuery) # <<>> => searchSeq < limit
  /\ HandleSearch

\* what handleSearch stores for a response or a failure
SearchOutcome(req, ok) ==
  IF ok THEN BackendSearch(req.query) ELSE <<>>

\* handleSearch, from the await on, without the finally block
SearchResponse_NoFinally(req, ok) ==
  /\ req \in searchReqs
  /\ searchReqs' = searchReqs \ {req}
  /\ searchResults' = SearchOutcome(req, ok)
  /\ lastCompleted' = [id |-> req.id, results |-> SearchOutcome(req, ok)]
  /\ UNCHANGED <<searchQuery, searchSeq, isSearching>>
  /\ UNCHANGED <<loadVars, selectionVars, expansionVars>>

\* handleSearch, from the await on, lowering the flag after a response only
SearchResponse_FlagKeptOnFailure(req, ok) ==
  /\ req \in searchReqs
  /\ searchReqs' = searchReqs \ {req}
  /\ searchResults' = SearchOutcome(req, ok)
  /\ isSearching' = IF ok THEN FALSE ELSE isSearching
  /\ lastCompleted' = [id |-> req.id, results |-> SearchOutcome(req, ok)]
  /\ UNCHANGED <<searchQuery, searchSeq>>
  /\ UNCHANGED <<loadVars, selectionVars, expansionVars>>

\* handleSearch, from the await on
SearchResponse(req, ok) ==
  /\ req \in searchReqs
  /\ searchReqs' = searchReqs \ {req}
  /\ searchResults' = SearchOutcome(req, ok)
  /\ isSearching' = FALSE
  /\ lastCompleted' = [id |-> req.id, results |-> SearchOutcome(req, ok)]
  /\ UNCHANGED <<searchQuery, searchSeq>>
  /\ UNCHANGED <<loadVars, selectionVars, expansionVars>>

(***************************************************************************)
(* The specifications.  Spec is the view after its mount without rescans;  *)
(* SpecSelection and SpecSearch follow one kind of request further.  In    *)
(* these three the tree request of the mount effect is answered (or fails) *)
(* and the stats request, which only feeds the header and the rescan       *)
(* button, stays unanswered.  SpecReload follows the loads and rescans,    *)
(* SpecView has every action of the view.                                  *)
(***************************************************************************)
Next ==
  \/ \E ok \in BOOLEAN : LoadFileTreeResponse(ok, Tree1)
  \/ \E node \in NodesOnScreen : ClickNode(node, CoreSelects)
  \/ \E req \in docReqs, ok \in BOOLEAN : DocumentResponse(req, ok)
  \/ ClosePreview
  \/ \E result \in Range(searchResults) : ResultClick(result)
  \/ \E q \in Queries : SetSearchQuery(q)
  \/ SubmitSearch(CoreSearches)
  \/ \E req \in searchReqs, ok \in BOOLEAN : SearchResponse(req, ok)

Spec == Init /\ [][Next]_vars

\* tree clicks and document resolutions
NextSelection ==
  \/ \E ok \in BOOLEAN : LoadFileTreeResponse(ok, Tree1)
  \/ \E node \in NodesOnScreen : ClickNode(node, MaxSelects)
  \/ \E req \in docReqs, ok \in BOOLEAN : DocumentResponse(req, ok)
  \/ ClosePreview

SpecSelection == Init /\ [][NextSelection]_vars

\* search submissions and their responses
NextSearch ==
  \/ \E ok \in BOOLEAN : LoadFileTreeResponse(ok, Tree1)
  \/ \E q \in Queries : SetSearchQuery(q)
  \/ SubmitSearch(MaxSearches)
  \/ \E req \in searchReqs, ok \in BOOLEAN : SearchResponse(req, ok)

SpecSearch == Init /\ [][NextSearch]_vars

\* each search request in flight receives a response or a failure
FairSearch ==
  \A id \in 1..MaxSearches :
    WF_vars(\E req \in searchReqs, ok \in BOOLEAN :
              req.id = id /\ SearchResponse(req, ok))

SpecSearchFair == SpecSearch /\ FairSearch

\* loads and rescans, with the tree the backend serves changing
NextReload ==
  \/ \E ok \in BOOLEAN, tree \in Trees : LoadFileTreeResponse(ok, tree)
  \/ \E ok \in BOOLEAN : LoadStatsResponse(ok)
  \/ RescanClick(MaxRescans)
  \/ \E ok \in BOOLEAN : ScanResponse(ok)
  \/ ReloadTimerFires

SpecReload == Init /\ [][NextReload]_vars

\* every action of the view
NextView ==
  \/ \E ok \in BOOLEAN, tree \in Trees : LoadFileTreeResponse(ok, tree)
  \/ \E ok \in BOOLEAN : LoadStatsResponse(ok)
  \/ RescanClick(ViewRequests - selectSeq - searchSeq)
  \/ \E ok \in BOOLEAN : ScanResponse(ok)
  \/ ReloadTimerFires
  \/ \E node \in NodesOnScreen : ClickNode(node, ViewRequests - searchSeq - rescanSeq)
  \/ \E req \in docReqs, ok \in BOOLEAN : DocumentResponse(req, ok)
  \/ ClosePreview
  \/ \E result \in Range(searchResults) : ResultClick(result)
  \/ \E q \in Queries : SetSearchQuery(q)
  \/ SubmitSearch(ViewRequests - selectSeq - rescanSeq)
  \/ \E req \in searchReqs, ok \in BOOLEAN : SearchResponse(req, ok)

SpecView == Init /\ [][NextView]_vars

(***************************************************************************)
(* Properties.                                                             *)
(***************************************************************************)
\* sequence numbers of the document resolutions in flight
PendingSeqs == {q.seq : q \in docReqs}

\* a resolution initiated after req has already delivered its response
NewerResolutionDelivered(req) ==
  \E s \in (req.seq + 1)..selectSeq : s \notin PendingSeqs

\* C1: selectFile(A), then selectFile(B); B's response arrives first and
\* B's document is previewed.  A's response, arriving after it, is not
\* applied: previewDocument stays B's document, never A's.
C1_StaleResolutionDiscarded ==
  [][\A req \in docReqs, ok \in BOOLEAN :
       (/\ DocumentResponse(req, ok)
        /\ NewerResolutionDelivered(req)
        /\ req.path # selectedFilePath
        /\ previewDocument # Null
        /\ previewDocument.path = selectedFilePath)
         => previewDocument' = previewDocument]_vars

\* C2: the view is decided in strict priority order: a preview gives
\* Preview whatever the search state; else a search in flight gives Loading
\* even with stale results; else results give Results; else a non-empty
\* query gives NoResults; else Welcome.
C2_ViewPriority ==
  /\ previewDocument # Null => ViewState = "Preview"
  /\ (previewDocument = Null /\ isSearching) => ViewState = "Loading"
  /\ (previewDocument = Null /\ ~isSearching /\ searchResults # <<>>)
       => ViewState = "Results"
  /\ (previewDocument = Null /\ ~isSearching /\ searchResults = <<>>
        /\ searchQuery # <<>>)
       => ViewState = "NoResults"
  /\ (previewDocument = Null /\ ~isSearching /\ searchResults = <<>>
        /\ searchQuery = <<>>)
       => ViewState = "Welcome"

\* C2 witness: a preview is shown while a search is in flight and the
\* results of an earlier search are still held.
C2_Witness ==
  /\ previewDocument # Null
  /\ isSearching
  /\ searchResults # <<>>
  /\ ViewState = "Preview"

\* the proper ancestor folder paths of p: its prefixes that end right
\* before a slash, the empty prefix excluded
ProperAncestorPaths(p) ==
  {SubSeq(p, 1, i - 1) : i \in {k \in 2..Len(p) : p[k] = "/"}}

\* C3: activating a result expands every proper ancestor folder path of
\* the document's path, spelled as the tree nodes spell them.
C3_AncestorsExpanded ==
  [][\A result \in Range(searchResults) :
       ResultClick(result)
         => \A a \in ProperAncestorPaths(result.document.path) :
              a \in expandedPaths']_vars

\* C4: activating a result changes the membership of no path other than
\* the proper ancestor folder paths of the document's path.
C4_OnlyAncestorsChanged ==
  [][\A result \in Range(searchResults) :
       ResultClick(result)
         => \A p \in expandedPaths \cup expandedPaths' :
              p \notin ProperAncestorPaths(result.document.path)
                => (p \in expandedPaths' <=> p \in expandedPaths)]_vars

\* C5: a folder path is expanded exactly when it has been toggled an odd
\* number of times, whatever happened to the other paths.
C5_ToggleParity ==
  \A p \in FolderPaths : IsExpanded(p) <=> toggleParity[p]

\* C5 witness: folder a toggled once and expanded, the root toggled twice
\* (it had to be expanded for a to be on screen) and collapsed.
C5_Witness ==
  /\ IsExpanded(FolderAPath)
  /\ toggleParity[FolderAPath]
  /\ ~IsExpanded(RootPath)
  /\ ~toggleParity[RootPath]

\* C6: activating a result is one step that sends no request and leaves
\* the result's document selected and previewed, so that the view is
\* Preview; no other result's document is selected or previewed.
C6_ActivationAtomic ==
  [][\A result \in Range(searchResults) :
       ResultClick(result)
         => /\ selectedFilePath' = result.document.path
            /\ previewDocument' = result.document
            /\ ViewState' = "Preview"
            /\ docReqs' = docReqs
            /\ searchReqs' = searchReqs
            /\ UNCHANGED <<treeReqs, statsReqs, scanReqs, timers>>
            /\ \A other \in Range(searchResults) :
                 other.document # result.document
                   => /\ previewDocument' # other.document
                      /\ selectedFilePath' # other.document.path]_vars

\* C6 witness: the second result of the list (document 7) was activated,
\* with no file ever clicked in the tree.
C6_Witness ==
  /\ selectSeq = 0
  /\ Len(searchResults) = 2
  /\ previewDocument = searchResults[2].document
  /\ selectedFilePath = searchResults[2].document.path
  /\ ViewState = "Preview"

\* C7: selectFile highlights the node at once, with the resolution still
\* to come, and a successful resolution makes previewDocument the indexed
\* document of that node's path.
C7_SelectThenResolve ==
  [][/\ \A node \in NodesOnScreen :
          (node.type = "file" /\ HandleClick(node))
            => /\ selectedFilePath' = node.path
               /\ previewDocument' = previewDocument
               /\ \E req \in docReqs' \ docReqs : req.path = node.path
     /\ \A req \in docReqs :
          DocumentResponse(req, TRUE)
            => /\ previewDocument' \in Corpus
               /\ previewDocument'.path = req.path]_vars

\* C7 witness: the node of the latest selectFile call is highlighted, its
\* resolution is pending and nothing is previewed yet.
C7_Witness ==
  /\ previewDocument = Null
  /\ \E req \in docReqs : req.seq = selectSeq /\ selectedFilePath = req.path

\* C8: when the resolution of the latest selectFile call fails or finds
\* no document, the preview is empty afterwards and the node is still the
\* selected one.  (Stated for the case that no document of this very node
\* was put into the preview while the resolution was pending.)
C8_NotFoundLeavesPreviewEmpty ==
  [][\A req \in docReqs :
       (/\ DocumentResponse(req, FALSE)
        /\ req.seq = selectSeq
        /\ selectedFilePath = req.path
        /\ previewDocument # Null => previewDocument.path # req.path)
         => /\ previewDocument' = Null
            /\ selectedFilePath' = req.path]_vars

\* a query of whitespace only, the empty query included
IsBlank(q) == \A i \in 1..Len(q) : q[i] = " "

\* numbers of the search requests in flight
PendingSearchIds == {q.id : q \in searchReqs}

\* C10: a search submitted while another is in flight starts a request of
\* its own: with a search in flight and a non-blank query in the box, the
\* submission is taken.
C10_SubmissionWhileInFlight ==
  (~isLoading /\ isSearching /\ ~IsBlank(searchQuery)
     /\ searchSeq < MaxSearches)
    => ENABLED SubmitSearch(MaxSearches)

\* C10, amended: no search is submitted while another is in flight, so at
\* most one request is in flight; the results held are those of the
\* handleSearch call that completed last, and once every response has
\* arrived that call is the latest submission (or a blank one after it).
C10_OneSearchAtATime ==
  /\ Cardinality(searchReqs) <= 1
  /\ isSearching => ~ENABLED SubmitSearch(MaxSearches)
  /\ lastCompleted # Null => searchResults = lastCompleted.results
  /\ (searchReqs = {} /\ lastCompleted # Null)
       => lastCompleted.id \in {0, searchSeq}

\* C10 witness: a search is in flight, another query has been typed since
\* and cannot be submitted, and the results of the search before are held.
C10_Witness ==
  /\ ~isLoading
  /\ searchSeq < MaxSearches
  /\ \E req \in searchReqs : req.query # searchQuery
  /\ ~IsBlank(searchQuery)
  /\ ~ENABLED SubmitSearch(MaxSearches)
  /\ lastCompleted # Null
  /\ searchResults = lastCompleted.results
  /\ searchResults # <<>>

\* C11: isSearching is true only if some submitted search request has not
\* received its response yet: it is false initially and in every state with
\* no search request outstanding.
C11_SearchingOnlyWhileOutstanding ==
  isSearching => searchReqs # {}

\* C11 witness: one search has been answered and a later one is in flight
\* with the flag raised.
C11_Witness ==
  /\ isSearching
  /\ searchReqs # {}
  /\ lastCompleted # Null
  /\ lastCompleted.id > 0

\* C12: submitting an empty or whitespace-only query sends no request and
\* empties the results; isSearching, the selected path, the preview and the
\* expansion set are as before.
C12_BlankQueryShortCircuit ==
  [][(HandleSearch /\ IsBlank(searchQuery))
       => /\ searchReqs' = searchReqs
          /\ searchSeq' = searchSeq
          /\ searchResults' = <<>>
          /\ isSearching' = isSearching
          /\ selectedFilePath' = selectedFilePath
          /\ previewDocument' = previewDocument
          /\ expandedPaths' = expandedPaths
          /\ UNCHANGED <<docReqs, treeReqs, statsReqs, scanReqs, timers>>]_vars

\* C12 witness: a whitespace-only query was submitted after a search, with
\* a document previewed and folders expanded: the results are empty, no
\* request is in flight and the preview is still there.
C12_Witness ==
  /\ searchQuery = <<" ">>
  /\ searchSeq > 0
  /\ lastCompleted = [id |-> 0, results |-> <<>>]
  /\ searchResults = <<>>
  /\ ~isSearching
  /\ searchReqs = {}
  /\ previewDocument # Null
  /\ expandedPaths # {}

\* C13: when a search request fails in transport, the results held are left
\* as they were; only isSearching returns to false.
C13_FailedSearchKeepsResults ==
  [][\A req \in searchReqs :
       SearchResponse(req, FALSE)
         => /\ searchResults' = searchResults
            /\ isSearching' = FALSE]_vars

\* C14: a failed tree load keeps the tree held before (or none), a failed
\* stats load keeps the stats held before; neither touches the selection,
\* the preview, the expansion set or the search state, and after a failed
\* tree load the view is the ordinary one, not the loading screen.
C14_FailedLoadsKeepPrevious ==
  [][/\ \A tree \in Trees :
          LoadFileTreeResponse(FALSE, tree)
            => /\ fileTree' = fileTree
               /\ stats' = stats
               /\ ~isLoading'
               /\ UNCHANGED <<selectedFilePath, previewDocument, expandedPaths>>
               /\ UNCHANGED <<searchQuery, searchResults, isSearching>>
     /\ LoadStatsResponse(FALSE)
          => /\ stats' = stats
             /\ fileTree' = fileTree
             /\ UNCHANGED <<selectedFilePath, previewDocument, expandedPaths>>
             /\ UNCHANGED <<searchQuery, searchResults, isSearching>>]_vars

\* C14 witness: the tree request of a reload failed and the tree loaded
\* before is still held, with a document previewed and folders expanded.
C14_Witness ==
  /\ treeLoadFailed
  /\ reloadCycles > 0
  /\ treeReqs = 0
  /\ fileTree # Null
  /\ previewDocument # Null
  /\ expandedPaths # {}

\* C15: every triggerRescan call is followed by a reload of tree and stats,
\* whether its scan request succeeds, fails or is not answered yet: at any
\* time each call so far has its scan request in flight, its reload timer
\* pending, or its reload started.
C15_EveryRescanReloads ==
  rescanSeq <= scanReqs + timers + reloadCycles

\* C16: a second triggerRescan call made before the delay of the first has
\* elapsed cancels and merges nothing, and two reload cycles are scheduled:
\* with two calls made, both scan requests answered, the timer of one call
\* pending and no timer fired yet, the timer of the other is pending too.
C16_TwoCyclesScheduled ==
  (rescanSeq = 2 /\ scanReqs = 0 /\ reloadCycles = 0 /\ timers > 0)
    => timers = 2

\* C17: the expansion set is changed only by a toggle and by the ancestor
\* expansion of a result activation.  A tree reload (also one that removes
\* an expanded folder), a file selection and its response, a search and its
\* response, an edit of the query, closing the preview and a rescan leave it
\* as it is.
C17_ExpansionFrame ==
  [][/\ expandedPaths' # expandedPaths
          => \/ \E node \in NodesOnScreen :
                  node.type = "folder" /\ HandleToggleExpanded(node.path)
             \/ \E result \in Range(searchResults) : HandleResultClick(result)
     /\ (\/ \E ok \in BOOLEAN, tree \in Trees : LoadFileTreeResponse(ok, tree)
         \/ \E ok \in BOOLEAN : LoadStatsResponse(ok)
         \/ \E node \in NodesOnScreen : HandleFileSelect(node)
         \/ \E req \in docReqs, ok \in BOOLEAN : DocumentResponse(req, ok)
         \/ HandleSearch
         \/ \E req \in searchReqs, ok \in BOOLEAN : SearchResponse(req, ok)
         \/ \E q \in Queries : SetSearchQuery(q)
         \/ ClosePreview
         \/ TriggerRescan
         \/ \E ok \in BOOLEAN : ScanResponse(ok)
         \/ ReloadTimerFires)
          => expandedPaths' = expandedPaths]_vars

\* C17 witness: folder a was expanded and a reload brought the tree without
\* it; its path is still in the expansion set.
C17_Witness ==
  /\ fileTree = Tree2
  /\ reloadCycles > 0
  /\ FolderAPath \in expandedPaths

\* C18: a click on a folder node toggles that folder's path in the
\* expansion set, changes neither the selected path nor the preview and
\* sends no request; a click on a file node calls the selection callback
\* for the node and leaves the expansion set as it is.
C18_ClickByNodeType ==
  [][\A node \in NodesOnScreen :
       HandleClick(node)
         => IF node.type = "folder"
              THEN /\ node.path \in expandedPaths' <=> node.path \notin expandedPaths
                   /\ expandedPaths' \ {node.path} = expandedPaths \ {node.path}
                   /\ selectedFilePath' = selectedFilePath
                   /\ previewDocument' = previewDocument
                   /\ UNCHANGED <<docReqs, searchReqs, treeReqs, statsReqs,
                                  scanReqs>>
              ELSE /\ expandedPaths' = expandedPaths
                   /\ selectSeq' = selectSeq + 1
                   /\ selectedFilePath' = node.path]_vars

\* C18 witness: file y.txt was clicked in the tree and is previewed, and
\* the root folder was collapsed afterwards: selection and preview are as
\* the file click left them.
C18_Witness ==
  /\ selectSeq = 1
  /\ docReqs = {}
  /\ selectedFilePath = FileYPath
  /\ previewDocument = Doc7
  /\ ~IsExpanded(RootPath)

\* C19: in every state with no document resolution in flight and a
\* document previewed, the previewed document is the document of the node
\* at the selected path.
C19_PreviewMatchesSelection ==
  (docReqs = {} /\ previewDocument # Null)
    => previewDocument.path = selectedFilePath

\* C20: once the preview is closed, nothing is previewed until the next
\* click on a file of the tree or on a result; the response to a resolution
\* started before the close does not bring the preview back.
C20_ClosedPreviewStaysClosed ==
  previewClosed => previewDocument = Null

\* C21: whenever a search request is in flight, isSearching is true, and
\* with no preview the view is Loading, not Results or NoResults.
C21_SearchingWhileInFlight ==
  searchReqs # {}
    => /\ isSearching
       /\ previewDocument = Null => ViewState = "Loading"

\* C21 witness: a search is in flight for another query than the one whose
\* results are still held, nothing is previewed and the view is Loading.
C21_Witness ==
  /\ searchReqs # {}
  /\ searchSeq > 1
  /\ searchResults # <<>>
  /\ previewDocument = Null
  /\ ViewState = "Loading"

\* C22: every submitted search request ends, a raised isSearching is
\* eventually lowered, after a failure as well as after a response, and
\* only the submission of a non-blank query raises it again.
C22_SearchEnds ==
  /\ \A id \in 1..MaxSearches :
       (id \in PendingSearchIds) ~> (id \notin PendingSearchIds)
  /\ isSearching ~> ~isSearching
  /\ [][(~isSearching /\ isSearching')
          => (HandleSearch /\ ~IsBlank(searchQuery))]_vars

\* C22 witness: searches were submitted, all have ended, the latest one
\* last, and the flag is lowered.
C22_Witness ==
  /\ searchSeq > 0
  /\ searchReqs = {}
  /\ lastCompleted # Null
  /\ lastCompleted.id = searchSeq
  /\ ~isSearching

\* C23: isLoading is true initially and as long as no tree load has
\* completed, the first tree response or failure lowers it whatever the
\* state of the stats load, and nothing raises it again: not the reloads of
\* a rescan either.
C23_LoadingOnlyInitially ==
  /\ isLoading = TRUE
  /\ [](isLoading => (fileTree = Null /\ treeReqs = 1 /\ rescanSeq = 0))
  /\ [][/\ ~isLoading => ~isLoading'
        /\ (\E ok \in BOOLEAN, tree \in Trees : LoadFileTreeResponse(ok, tree))
             => ~isLoading'
        /\ (\/ ReloadTimerFires
            \/ TriggerRescan
            \/ \E ok \in BOOLEAN : ScanResponse(ok)
            \/ \E ok \in BOOLEAN : LoadStatsResponse(ok))
             => isLoading' = isLoading]_vars

\* C23 witness: the timer of a rescan has fired, its tree request is in
\* flight and the view is not the loading screen.
C23_Witness ==
  /\ ~isLoading
  /\ reloadCycles = 1
  /\ treeReqs = 1
  /\ statsReqs = 1

=============================================================================
